---- MODULE Spec2Model ----
(***************************************************************************)
(* A model of src/src/hlapi.rs: the value-marshaling layer between native  *)
(* code and the host (Emacs) runtime.  Host values live in a host heap     *)
(* (EmacsVal = index into it, 0 = the null pointer), native heap objects   *)
(* in a native heap, and the dispatch table is a map from primitive name   *)
(* to "is the entry Some".  Every pub fn of the file is an operator that   *)
(* threads the heaps and returns a ConvResult; every action is one call.   *)
(***************************************************************************)
EXTENDS Integers, Sequences, FiniteSets, TLC

VARIABLES
    env,     \* the dispatch table *env: primitive name -> entry present
    heap,    \* the host heap: a sequence of host objects
    nheap,   \* the native heap: a sequence of boxed native objects
    out      \* what the last call did: operation, inputs, result, host calls

vars == <<env, heap, nheap, out>>

(***************************************************************************)
(* Bounds                                                                  *)
(***************************************************************************)
\* Longest byte sequence handed to a text conversion.
MaxLen == 3
\* Largest integer handed to an integer conversion.
MaxInt == 2

\* The bytes texts are drawn from: nul, 'a', and the two bytes of U+00E9
\* (195 169), so that valid multi-byte text, a lone lead byte and a lone
\* continuation byte all occur.
Byte == {0, 97, 195, 169}

BSeq(n) == UNION {[1..k -> Byte] : k \in 0..n}

Prims == {"get_user_ptr", "copy_string_contents", "extract_integer",
          "make_integer", "make_string", "make_function", "make_user_ptr",
          "eq"}

(***************************************************************************)
(* ConvErr and ConvResult                                                  *)
(***************************************************************************)
\* A ConvErr value: variant name k, String payload s, usize payload n and
\* Option<Vec<u8>> payload b (<<>> is None, <<v>> is Some(v)).
ConvErr(k, s, n, b) == [k |-> k, s |-> s, n |-> n, b |-> b]

NoErr == ConvErr("none", "", 0, <<>>)
CoreFnMissing(name) == ConvErr("CoreFnMissing", name, 0, <<>>)
Nullptr(name) == ConvErr("Nullptr", name, 0, <<>>)
FailedToFetchLength == ConvErr("FailedToFetchLength", "", 0, <<>>)
FailedToCopy == ConvErr("FailedToCopy", "", 0, <<>>)
FromUtf8Error(valid_up_to, bytes) ==
    ConvErr("FromUtf8Error", "", valid_up_to, <<bytes>>)
FoundInteriorNulByte(pos, bytes) ==
    ConvErr("FoundInteriorNulByte", "", pos, bytes)
WrongEmacsValueType(expected, got) ==
    ConvErr("WrongEmacsValueType", expected, got, <<>>)

\* ConvResult<T>: Ok(v) or Err(e), with the host heap and the host
\* primitives called on the way.
Ok(v, h, calls) ==
    [ok |-> TRUE, v |-> v, e |-> NoErr, heap |-> h, calls |-> calls]
Err(e, h, calls) ==
    [ok |-> FALSE, v |-> <<>>, e |-> e, heap |-> h, calls |-> calls]

(***************************************************************************)
(* The host: objects, and the primitives of the dispatch table             *)
(***************************************************************************)
HObj(t, b, n, m, car, cdr) ==
    [t |-> t, b |-> b, n |-> n, m |-> m, car |-> car, cdr |-> cdr]
HStr(b) == HObj("str", b, 0, 0, 0, 0)
HInt(n) == HObj("int", <<>>, n, 0, 0, 0)
HSym(name) == HObj("sym", name, 0, 0, 0, 0)
HCons(a, d) == HObj("cons", <<>>, 0, 0, a, d)

Name_nil == <<110, 105, 108>>
Name_t == <<116>>

\* The heap every runtime starts with: the symbols nil (value 1), t (value 2).
BaseHeap == <<HSym(Name_nil), HSym(Name_t)>>
NilVal == 1
TVal == 2

\* make_string(env, ptr, len): a new host string of the first len bytes.
host_make_string(h, buf, len) ==
    LET h2 == Append(h, HStr(SubSeq(buf, 1, len)))
    IN  [heap |-> h2, val |-> Len(h2)]

\* make_integer(env, n): a new host integer.
host_make_integer(h, n) ==
    LET h2 == Append(h, HInt(n))
    IN  [heap |-> h2, val |-> Len(h2)]

\* extract_integer(env, val): the integer behind val (0, with an error
\* signalled in the host, when val is no integer).
host_extract_integer(h, val) ==
    IF h[val].t = "int" THEN h[val].n ELSE 0

\* copy_string_contents(env, val, buf, &len): with a null buf, reports the
\* size needed (the bytes and one terminating zero); with a buffer of
\* capacity len, copies the bytes and the terminating zero into it.  It
\* reports failure for a value that is no string, for a buffer that is too
\* small, and when the host has an error pending (fail).
host_copy_string_contents(h, val, buf_null, buf, len, fail) ==
    LET need == Len(h[val].b) + 1
    IN  IF fail \/ val = 0 \/ h[val].t # "str"
        THEN [ok |-> FALSE, len |-> len, buf |-> buf]
        ELSE IF buf_null
        THEN [ok |-> TRUE, len |-> need, buf |-> buf]
        ELSE IF len < need
        THEN [ok |-> FALSE, len |-> need, buf |-> buf]
        ELSE [ok |-> TRUE, len |-> need,
              buf |-> [i \in 1..Len(buf) |->
                         IF i < need THEN h[val].b[i]
                         ELSE IF i = need THEN 0 ELSE buf[i]]]

(***************************************************************************)
(* std: CString::new, strlen, String::from_utf8                            *)
(***************************************************************************)
\* The 0-based index of the first nul byte of b, or -1.
RECURSIVE FirstNulFrom(_, _)
FirstNulFrom(b, i) ==
    IF i > Len(b) THEN -1
    ELSE IF b[i] = 0 THEN i - 1
    ELSE FirstNulFrom(b, i + 1)

FirstNul(b) == FirstNulFrom(b, 1)

\* CString::new(bytes): NulError{nul_position, bytes} on any nul byte.
CString_new(b) ==
    IF FirstNul(b) >= 0
    THEN [ok |-> FALSE, v |-> b, pos |-> FirstNul(b)]
    ELSE [ok |-> TRUE, v |-> b, pos |-> 0]

\* CString::as_ptr: the bytes followed by the terminating nul.
as_bytes_with_nul(b) == Append(b, 0)

\* libc::strlen on a nul-terminated buffer.
strlen(buf) == FirstNul(buf)

\* The length of the longest valid UTF-8 prefix of b (1- and 2-byte forms;
\* Byte holds no lead byte of a longer form).
RECURSIVE valid_up_to_from(_, _)
valid_up_to_from(b, i) ==
    IF i > Len(b) THEN Len(b)
    ELSE IF b[i] < 128 THEN valid_up_to_from(b, i + 1)
    ELSE IF b[i] >= 194 /\ b[i] <= 223 /\ i + 1 <= Len(b)
            /\ b[i + 1] >= 128 /\ b[i + 1] <= 191
    THEN valid_up_to_from(b, i + 2)
    ELSE i - 1

valid_up_to(b) == valid_up_to_from(b, 1)

\* String::from_utf8(bytes)
String_from_utf8(b) ==
    IF valid_up_to(b) = Len(b)
    THEN [ok |-> TRUE, v |-> b, valid_up_to |-> Len(b)]
    ELSE [ok |-> FALSE, v |-> b, valid_up_to |-> valid_up_to(b)]

(***************************************************************************)
(* impl From<...> for ConvErr                                              *)
(***************************************************************************)
From_NulError_mut_last(pos, bytes) ==
    FoundInteriorNulByte(Len(bytes) - 1, <<bytes>>)

\* impl From<NulError> for ConvErr
From_NulError(pos, bytes) ==
    FoundInteriorNulByte(pos, <<bytes>>)

\* impl From<FromUtf8Error> for ConvErr
From_FromUtf8Error(up_to, bytes) ==
    FromUtf8Error(up_to, bytes)

(***************************************************************************)
(* mod elisp2native                                                        *)
(***************************************************************************)
strip_trailing_zero_bytes_mut_none(bytes) ==
    bytes

\* fn strip_trailing_zero_bytes(bytes: &mut Vec<u8>)
RECURSIVE strip_trailing_zero_bytes(_)
strip_trailing_zero_bytes(bytes) ==
    IF Len(bytes) > 0 /\ bytes[Len(bytes)] = 0
    THEN strip_trailing_zero_bytes(SubSeq(bytes, 1, Len(bytes) - 1))
    ELSE bytes

\* One recorded call of copy_string_contents: the destination passed, the
\* capacity of the buffer behind it, what the host answered.
CopyCall(dst, size, r) ==
    [fn |-> "copy_string_contents", dst |-> dst, size |-> size,
     ok |-> r.ok, len |-> r.len]

\* A variant that does not return after a failed length query.
string_bytes_mut_no_return(e, h, val, hf) ==
    IF ~e["copy_string_contents"]
    THEN Err(CoreFnMissing("copy_string_contents"), h, <<>>)
    ELSE LET c1 == host_copy_string_contents(h, val, TRUE, <<>>, 0, hf = 1)
             bytes == [i \in 1..c1.len |-> 0]
             c2 == host_copy_string_contents(h, val, FALSE, bytes, c1.len,
                                             hf = 2)
             calls == <<CopyCall("null", 0, c1),
                        CopyCall("buf", Len(bytes), c2)>>
         IN  IF ~c2.ok THEN Err(FailedToCopy, h, calls)
             ELSE Ok(c2.buf, h, calls)

\* pub fn string_bytes(env, val) -> ConvResult<Vec<u8>>
\* hf is the host's behaviour during the call: 0 answers normally, 1 fails
\* the first call of copy_string_contents, 2 fails the second.
string_bytes(e, h, val, hf) ==
    IF ~e["copy_string_contents"]
    THEN Err(CoreFnMissing("copy_string_contents"), h, <<>>)
    ELSE LET c1 == host_copy_string_contents(h, val, TRUE, <<>>, 0, hf = 1)
         IN  IF ~c1.ok
             THEN Err(FailedToFetchLength, h, <<CopyCall("null", 0, c1)>>)
             ELSE LET bytes == [i \in 1..c1.len |-> 0]
                      c2 == host_copy_string_contents(h, val, FALSE, bytes,
                                                      c1.len, hf = 2)
                      calls == <<CopyCall("null", 0, c1),
                                 CopyCall("buf", Len(bytes), c2)>>
                  IN  IF ~c2.ok THEN Err(FailedToCopy, h, calls)
                      ELSE Ok(c2.buf, h, calls)

\* pub fn string(env, val) -> ConvResult<String>
elisp2native_string(e, h, val, hf) ==
    LET r == string_bytes(e, h, val, hf)
    IN  IF ~r.ok THEN r
        ELSE LET bytes == strip_trailing_zero_bytes(r.v)
                 s == String_from_utf8(bytes)
             IN  IF s.ok THEN Ok(s.v, h, r.calls)
                 ELSE Err(From_FromUtf8Error(s.valid_up_to, s.v), h, r.calls)

\* pub fn cstring(env, val) -> ConvResult<CString>
elisp2native_cstring(e, h, val, hf) ==
    LET r == string_bytes(e, h, val, hf)
    IN  IF ~r.ok THEN r
        ELSE LET bytes == strip_trailing_zero_bytes(r.v)
                 c == CString_new(bytes)
             IN  IF c.ok THEN Ok(c.v, h, r.calls)
                 ELSE Err(From_NulError(c.pos, c.v), h, r.calls)

\* A variant that asks for the primitive before it looks at val.
int_value_mut_order(e, h, val) ==
    IF ~e["extract_integer"]
    THEN Err(CoreFnMissing("extract_integer"), h, <<>>)
    ELSE IF val = 0 THEN Err(Nullptr("val"), h, <<>>)
    ELSE Ok(host_extract_integer(h, val), h, <<"extract_integer">>)

\* pub fn int_value(env, val) -> ConvResult<i64>
int_value(e, h, val) ==
    IF val = 0 THEN Err(Nullptr("val"), h, <<>>)
    ELSE IF ~e["extract_integer"]
    THEN Err(CoreFnMissing("extract_integer"), h, <<>>)
    ELSE Ok(host_extract_integer(h, val), h, <<"extract_integer">>)

(***************************************************************************)
(* mod native2elisp                                                        *)
(***************************************************************************)
\* pub fn integer(env, num) -> ConvResult<EmacsVal>
native2elisp_integer(e, h, num) ==
    IF ~e["make_integer"]
    THEN Err(CoreFnMissing("make_integer"), h, <<>>)
    ELSE LET r == host_make_integer(h, num)
         IN  Ok(r.val, r.heap, <<"make_integer">>)

\* pub fn string<S: Into<Vec<u8>>>(env, string) -> ConvResult<EmacsVal>
native2elisp_string(e, h, string) ==
    LET cstring == CString_new(string)
    IN  IF ~cstring.ok
        THEN Err(From_NulError(cstring.pos, cstring.v), h, <<>>)
        ELSE LET c_string == as_bytes_with_nul(cstring.v)
                 len == strlen(c_string)
             IN  IF ~e["make_string"]
                 THEN Err(CoreFnMissing("make_string"), h, <<>>)
                 ELSE LET r == host_make_string(h, c_string, len)
                      IN  Ok(r.val, r.heap, <<"make_string">>)

(***************************************************************************)
(* Conversions of single values: texts and integers                        *)
(***************************************************************************)
\* No text made by make_text is in hand.
NoMade == [val |-> 0, s |-> <<>>]

Out(op, arg, hf, r, made) ==
    [op |-> op, arg |-> arg, hf |-> hf, res |-> [ok |-> r.ok, v |-> r.v,
     e |-> r.e], calls |-> r.calls, made |-> made]

Idle == Out("init", 0, 0, Ok(0, <<>>, <<>>), NoMade)

\* The values of the heap a caller can hold, and the null pointer.
Held == (Len(BaseHeap) + 1)..Len(heap)

ValueEnvs ==
    {e \in [Prims -> BOOLEAN] :
        \A p \in Prims \ {"copy_string_contents", "extract_integer",
                          "make_integer", "make_string"} : e[p]}

ValueInit ==
    /\ env \in ValueEnvs
    /\ heap = BaseHeap
    /\ nheap = <<>>
    /\ out = Idle

\* The host hands the native side a string of its own (any bytes, nul
\* bytes included) as the argument of a boundary call.
HostString ==
    /\ out.op = "init"
    /\ \E b \in BSeq(MaxLen) :
        /\ heap' = Append(BaseHeap, HStr(b))
        /\ out' = Out("host_string", b, 0, Ok(Len(heap'), heap', <<>>), NoMade)
        /\ UNCHANGED <<env, nheap>>

\* native2elisp::string on any bytes, first thing in a boundary call.
MakeText ==
    /\ out.op = "init"
    /\ \E s \in BSeq(MaxLen) :
        LET r == native2elisp_string(env, heap, s)
        IN  /\ heap' = r.heap
            /\ out' = Out("make_text", s, 0, r,
                          IF r.ok THEN [val |-> r.v, s |-> s] ELSE NoMade)
            /\ UNCHANGED <<env, nheap>>

\* native2elisp::integer, first thing in a boundary call.
MakeInteger ==
    /\ out.op = "init"
    /\ \E n \in 0..MaxInt :
        LET r == native2elisp_integer(env, heap, n)
        IN  /\ heap' = r.heap
            /\ out' = Out("make_integer", n, 0, r, NoMade)
            /\ UNCHANGED <<env, nheap>>

\* elisp2native::string_bytes on a held value.
StringBytes ==
    \E val \in Held, hf \in 0..2 :
        /\ out' = Out("string_bytes", val, hf,
                      string_bytes(env, heap, val, hf), out.made)
        /\ UNCHANGED <<env, heap, nheap>>

\* elisp2native::string on a held value.
ReadText ==
    \E val \in Held, hf \in 0..2 :
        /\ out' = Out("string", val, hf,
                      elisp2native_string(env, heap, val, hf), out.made)
        /\ UNCHANGED <<env, heap, nheap>>

\* elisp2native::cstring on a held value.
ReadCString ==
    \E val \in Held, hf \in 0..2 :
        /\ out' = Out("cstring", val, hf,
                      elisp2native_cstring(env, heap, val, hf), out.made)
        /\ UNCHANGED <<env, heap, nheap>>

\* elisp2native::int_value on a held value or on the null pointer.
IntValue ==
    \E val \in Held \cup {0} :
        /\ out' = Out("int_value", val, 0, int_value(env, heap, val),
                      out.made)
        /\ UNCHANGED <<env, heap, nheap>>

\* The boundary call returns: the host values made or received during it
\* are discarded (the native side keeps none across calls).
Return ==
    /\ out.op # "init"
    /\ heap' = BaseHeap
    /\ out' = Idle
    /\ UNCHANGED <<env, nheap>>

ValueNext ==
    \/ Return
    \/ HostString
    \/ MakeText
    \/ MakeInteger
    \/ StringBytes
    \/ ReadText
    \/ ReadCString
    \/ IntValue

ValueSpec == ValueInit /\ [][ValueNext]_vars

(***************************************************************************)
(* Claims about the conversions of single values (under ValueSpec)         *)
(***************************************************************************)
\* Every nul byte of b is a trailing one (b may hold none).
OnlyTrailingNuls(b) == FirstNul(strip_trailing_zero_bytes(b)) < 0
\* Some nul byte of b is followed by a byte that is not nul.
HasInteriorNul(b) == FirstNul(strip_trailing_zero_bytes(b)) >= 0

\* The call of out was a read of a host string that the host answered
\* normally, through a table that has copy_string_contents.
ReadOfString(op) ==
    /\ out.op = op
    /\ out.hf = 0
    /\ env["copy_string_contents"]
    /\ heap[out.arg].t = "str"

\* The nul rule of read_nul_terminated_text (elisp2native::cstring): trailing
\* zero bytes are stripped; the rest is returned when it holds no nul byte,
\* and otherwise the call fails with FoundInteriorNulByte at the first nul.
CStringNulRule ==
    ReadOfString("cstring") =>
        LET b == heap[out.arg].b
        IN  /\ OnlyTrailingNuls(b) =>
                 out.res.ok /\ out.res.v = strip_trailing_zero_bytes(b)
            /\ HasInteriorNul(b) =>
                 /\ ~out.res.ok
                 /\ out.res.e.k = "FoundInteriorNulByte"
                 /\ out.res.e.n = FirstNul(b)

C5_EveryValue ==
    (out.op = "int_value" /\ ~env["extract_integer"]) =>
        /\ ~out.res.ok
        /\ out.res.e = CoreFnMissing("extract_integer")
        /\ out.calls = <<>>

\* C5, amended: with extract_integer absent, int_value calls no host
\* primitive and returns CoreFnMissing("extract_integer") for every value
\* that is not null; for the null value it returns Nullptr("val").
C5_NonNullValue ==
    (out.op = "int_value" /\ ~env["extract_integer"]) =>
        /\ ~out.res.ok
        /\ out.calls = <<>>
        /\ out.res.e = IF out.arg = 0 THEN Nullptr("val")
                       ELSE CoreFnMissing("extract_integer")

\* int_value was called on a host integer through a table without
\* extract_integer.
C5_Witness ==
    /\ out.op = "int_value"
    /\ ~env["extract_integer"]
    /\ out.arg # 0
    /\ heap[out.arg].t = "int"
    /\ out.res.e = CoreFnMissing("extract_integer")

\* C6: a native text (valid UTF-8 without nul bytes) made into a host text
\* by make_text and read back by read_text, through a host that answers
\* copy_string_contents normally, comes back unchanged.
C6_RoundTrip ==
    (/\ out.op = "string"
     /\ out.made.val # 0
     /\ out.arg = out.made.val
     /\ out.hf = 0
     /\ env["copy_string_contents"]
     /\ valid_up_to(out.made.s) = Len(out.made.s)) =>
        out.res.ok /\ out.res.v = out.made.s

\* A text of a one-byte and a two-byte character went round.
C6_Witness ==
    /\ out.op = "string"
    /\ out.arg = out.made.val
    /\ out.made.s = <<97, 195, 169>>
    /\ out.res.ok
    /\ out.res.v = <<97, 195, 169>>

\* The two-phase order of one string_bytes call, read off the host calls it
\* made: a length query with a null destination; nothing more when that
\* fails; otherwise exactly one copy into a buffer of the reported size.
TwoPhase ==
    /\ Len(out.calls) >= 1
    /\ out.calls[1].dst = "null"
    /\ ~out.calls[1].ok =>
         /\ Len(out.calls) = 1
         /\ ~out.res.ok
         /\ out.res.e = FailedToFetchLength
    /\ out.calls[1].ok =>
         /\ Len(out.calls) = 2
         /\ out.calls[2].dst = "buf"
         /\ out.calls[2].size = out.calls[1].len
         /\ ~out.calls[2].ok =>
              ~out.res.ok /\ out.res.e = FailedToCopy
         /\ out.calls[2].ok =>
              /\ out.res.ok
              /\ out.res.v = Append(heap[out.arg].b, 0)
    /\ ~out.res.ok => out.res.v = <<>>

\* C10 as stated: every call of string_bytes starts with the length query.
\* (Violated when the table has no copy_string_contents: no call is made.)
C10_EveryCall ==
    out.op = "string_bytes" => TwoPhase

\* C10, amended: a call of string_bytes through a table that has
\* copy_string_contents follows the two-phase order; through a table that
\* lacks it, the call returns CoreFnMissing("copy_string_contents") and
\* calls nothing.
C10_TwoPhase ==
    out.op = "string_bytes" =>
        IF env["copy_string_contents"] THEN TwoPhase
        ELSE /\ out.calls = <<>>
             /\ ~out.res.ok
             /\ out.res.e = CoreFnMissing("copy_string_contents")

\* A length query failed and string_bytes stopped there.
C10_Witness ==
    /\ out.op = "string_bytes"
    /\ Len(out.calls) = 1
    /\ out.res.e = FailedToFetchLength

(***************************************************************************)
(* Boxed native objects: native2elisp::boxed, elisp2native::pointer and    *)
(* mut_ref, destruct                                                       *)
(***************************************************************************)
\* Most objects boxed in one run.
MaxObjs == 2
\* Largest native value boxed.
MaxVal == 2

\* A native heap object: the value moved to the heap, whether its
\* allocation is live, and how often its cleanup (Drop) has run.
NObj(value) == [value |-> value, live |-> TRUE, drops |-> 0]

\* A host user-pointer value: the attached pointer n, the finalizer m
\* (1: destruct), and, once the host has finalized it, the tag
\* "finalized_user_ptr".
HUser(ptr) == HObj("user_ptr", <<>>, ptr, 1, 0, 0)

\* make_user_ptr(env, Some(dtor), ptr): a new user-pointer value.
host_make_user_ptr(h, ptr) ==
    LET h2 == Append(h, HUser(ptr))
    IN  [heap |-> h2, val |-> Len(h2)]

\* get_user_ptr(env, val): the pointer attached to val (null, with an error
\* signalled in the host, when val is no user pointer).
host_get_user_ptr(h, val) ==
    IF val # 0 /\ h[val].t = "user_ptr" THEN h[val].n ELSE 0

\* A variant that forgets the box (mem::forget) instead of dropping it.
destruct_mut_forget(nh, arg) ==
    nh

\* pub unsafe extern "C" fn destruct<T>(arg: *mut c_void)
destruct(nh, arg) ==
    IF arg = 0 THEN nh
    ELSE [nh EXCEPT ![arg].live = FALSE, ![arg].drops = @ + 1]

\* A ConvResult together with the native heap it leaves.
WithNative(r, nh) == [r |-> r, nheap |-> nh]

\* pub fn boxed<T>(env, value, dtor) -> ConvResult<EmacsVal>
native2elisp_boxed(e, h, nh, value) ==
    LET nh2 == Append(nh, NObj(value))
        ptr == Len(nh2)
    IN  IF ~e["make_user_ptr"]
        THEN WithNative(Err(CoreFnMissing("make_user_ptr"), h, <<>>), nh2)
        ELSE LET r == host_make_user_ptr(h, ptr)
             IN  WithNative(Ok(r.val, r.heap, <<"make_user_ptr">>), nh2)

\* pub fn pointer<T>(env, args, index) -> ConvResult<*mut T>
\* args is the argument vector, or <<>> with args_null for a null one.
elisp2native_pointer(e, h, args_null, args, index) ==
    IF args_null THEN Err(Nullptr("args"), h, <<>>)
    ELSE IF ~e["get_user_ptr"]
    THEN Err(CoreFnMissing("get_user_ptr"), h, <<>>)
    ELSE Ok(host_get_user_ptr(h, args[index + 1]), h, <<"get_user_ptr">>)

\* pub fn mut_ref<'t, T>(env, args, index) -> ConvResult<&'t mut T>
\* The reference is the pointer reinterpreted; nothing is read or freed.
elisp2native_mut_ref(e, h, args_null, args, index) ==
    elisp2native_pointer(e, h, args_null, args, index)

BoxEnvs ==
    {e \in [Prims -> BOOLEAN] :
        \A p \in Prims \ {"make_user_ptr", "get_user_ptr"} : e[p]}

BoxInit ==
    /\ env \in BoxEnvs
    /\ heap = BaseHeap
    /\ nheap = <<>>
    /\ out = Idle

\* The user-pointer values the host still holds.
UserPtrs == {u \in DOMAIN heap : heap[u].t = "user_ptr"}

\* native2elisp::boxed on a native value.
Boxed ==
    \E value \in 1..MaxVal :
        LET b == native2elisp_boxed(env, heap, nheap, value)
        IN  /\ Len(nheap) < MaxObjs
            /\ heap' = b.r.heap
            /\ nheap' = b.nheap
            /\ out' = Out("boxed", value, 0, b.r, NoMade)
            /\ UNCHANGED env

\* elisp2native::pointer on a one-slot argument vector, or on a null one.
Pointer ==
    \E u \in UserPtrs \cup {0} :
        LET r == elisp2native_pointer(env, heap, u = 0,
                                      IF u = 0 THEN <<>> ELSE <<u>>, 0)
        IN  /\ out' = Out("pointer", u, 0, r, NoMade)
            /\ UNCHANGED <<env, heap, nheap>>

\* elisp2native::mut_ref on a one-slot argument vector, or on a null one.
MutRef ==
    \E u \in UserPtrs \cup {0} :
        LET r == elisp2native_mut_ref(env, heap, u = 0,
                                      IF u = 0 THEN <<>> ELSE <<u>>, 0)
        IN  /\ out' = Out("mut_ref", u, 0, r, NoMade)
            /\ UNCHANGED <<env, heap, nheap>>

\* The host reclaims a user-pointer value: it calls the finalizer stored
\* with the value, once, on the pointer stored with it.
HostFinalize ==
    \E u \in UserPtrs :
        /\ nheap' = destruct(nheap, heap[u].n)
        /\ heap' = [heap EXCEPT ![u].t = "finalized_user_ptr"]
        /\ out' = Out("finalize", u, 0, Ok(0, <<>>, <<>>), NoMade)
        /\ UNCHANGED env

\* The host runs the finalizer on a slot that holds no pointer.
HostFinalizeNull ==
    /\ nheap' = destruct(nheap, 0)
    /\ out' = Out("finalize_null", 0, 0, Ok(0, <<>>, <<>>), NoMade)
    /\ UNCHANGED <<env, heap>>

BoxNext ==
    \/ Boxed
    \/ Pointer
    \/ MutRef
    \/ HostFinalize
    \/ HostFinalizeNull

BoxSpec == BoxInit /\ [][BoxNext]_vars

\* The host values that are or were user pointers.
AllUserPtrs ==
    {u \in DOMAIN heap : heap[u].t \in {"user_ptr", "finalized_user_ptr"}}

\* C2: for every value boxed returned to the host, the cleanup of the boxed
\* object has run exactly once if the host has invoked the destructor on
\* the value's pointer, and not at all before that: no native call (boxed,
\* pointer, mut_ref, destruct on a null pointer) runs it or frees the object.
C2_CleanupOnceByHost ==
    \A u \in AllUserPtrs :
        LET o == nheap[heap[u].n]
        IN  IF heap[u].t = "finalized_user_ptr"
            THEN o.drops = 1 /\ ~o.live
            ELSE o.drops = 0 /\ o.live

\* Two objects were boxed, the pointer of one was read back, the host has
\* finalized one of them and the other is still live.
C2_Witness ==
    /\ \E u \in AllUserPtrs :
          heap[u].t = "finalized_user_ptr" /\ nheap[heap[u].n].drops = 1
    /\ \E u \in AllUserPtrs :
          heap[u].t = "user_ptr" /\ nheap[heap[u].n].live
    /\ out.op = "mut_ref"
    /\ out.res.ok
    /\ out.res.v # 0

\* C9 as stated: every object boxed has an owner or is released: it is
\* attached to a host user pointer, or its allocation is no longer live;
\* boxed leaves none allocated when it fails.  (Violated: the object is
\* allocated before make_user_ptr is looked up, and the early return on
\* CoreFnMissing frees nothing.)
C9_NoLeak ==
    \A p \in DOMAIN nheap :
        nheap[p].live => \E u \in UserPtrs : heap[u].n = p

(***************************************************************************)
(* call(env, name, args): the host's built-in functions, reached by name   *)
(***************************************************************************)
\* The values of a host list, in order (a list is nil or a chain of cons
\* cells that ends in nil).
RECURSIVE host_elements(_, _)
host_elements(h, l) ==
    IF l # 0 /\ h[l].t = "cons"
    THEN <<h[l].car>> \o host_elements(h, h[l].cdr)
    ELSE <<>>

\* (nth i l): the i-th value of the list, counted from 0; nil past its end.
host_nth(h, i, l) ==
    IF i < Len(host_elements(h, l)) THEN host_elements(h, l)[i + 1]
    ELSE NilVal

\* (intern name): the symbol of that name, made if there is none yet.
host_intern(h, name) ==
    LET have == {i \in DOMAIN h : h[i].t = "sym" /\ h[i].b = name}
    IN  IF have # {}
        THEN [heap |-> h, val |-> CHOOSE i \in have : TRUE]
        ELSE [heap |-> Append(h, HSym(name)), val |-> Len(h) + 1]

\* call(env, name, args) -> EmacsVal: interns name and funcalls it.
call(h, name, args) ==
    CASE name = "intern" -> host_intern(h, h[args[1]].b)
      [] name = "list" -> [heap |-> h, val |-> NilVal]
      [] name = "cons" ->
            [heap |-> Append(h, HCons(args[1], args[2])), val |-> Len(h) + 1]
      [] name = "listp" ->
            [heap |-> h,
             val |-> IF args[1] = NilVal \/ h[args[1]].t = "cons"
                     THEN TVal ELSE NilVal]
      [] name = "length" ->
            [heap |-> Append(h, HInt(Len(host_elements(h, args[1])))),
             val |-> Len(h) + 1]
      [] name = "nth" ->
            [heap |-> h, val |-> host_nth(h, h[args[1]].n, args[2])]
      [] name = "fset" ->
            [heap |-> [h EXCEPT ![args[1]].car = args[2]], val |-> args[2]]
      [] name = "message" -> [heap |-> h, val |-> args[1]]

\* eq(env, a, b): the host's identity test.
host_eq(a, b) == a = b

(***************************************************************************)
(* native2elisp::symbol, eq, string_list; elisp2native::list               *)
(***************************************************************************)
\* pub fn symbol(env, name) -> ConvResult<EmacsVal>
native2elisp_symbol(e, h, name) ==
    LET s == native2elisp_string(e, h, name)
    IN  IF ~s.ok THEN s
        ELSE LET r == call(s.heap, "intern", <<s.v>>)
             IN  Ok(r.val, r.heap, s.calls)

\* pub fn eq(env, left, right) -> ConvResult<bool>
eq(e, h, left, right) ==
    IF ~e["eq"] THEN Err(CoreFnMissing("eq"), h, <<>>)
    ELSE Ok(host_eq(left, right), h, <<"eq">>)

\* The loop of string_list over the entries still to be consed, given in
\* the order the loop visits them.
RECURSIVE string_list_loop(_, _, _, _)
string_list_loop(e, h, list, entries) ==
    IF entries = <<>> THEN Ok(list, h, <<>>)
    ELSE LET s == native2elisp_string(e, h, Head(entries))
         IN  IF ~s.ok THEN s
             ELSE LET c == call(s.heap, "cons", <<s.v, list>>)
                  IN  string_list_loop(e, c.heap, c.val, Tail(entries))

\* strings.iter().rev()
RECURSIVE rev(_)
rev(q) == IF q = <<>> THEN <<>> ELSE Append(rev(Tail(q)), Head(q))

\* A variant that iterates without .rev().
string_list_mut_no_rev(e, h, strings) ==
    LET l == call(h, "list", <<>>)
    IN  string_list_loop(e, l.heap, l.val, strings)

\* pub fn string_list<S: AsRef<str>>(env, strings) -> ConvResult<EmacsVal>
string_list(e, h, strings) ==
    LET l == call(h, "list", <<>>)
    IN  string_list_loop(e, l.heap, l.val, rev(strings))

\* The loop of list: element i of arg for i in from .. length-1, pushed
\* onto the Vec in that order.
RECURSIVE list_loop(_, _, _, _, _, _)
list_loop(e, h, arg, from, length, acc) ==
    IF from >= length THEN Ok(acc, h, <<>>)
    ELSE LET index == native2elisp_integer(e, h, from)
         IN  IF ~index.ok THEN index
             ELSE LET element == call(index.heap, "nth", <<index.v, arg>>)
                  IN  list_loop(e, element.heap, arg, from + 1, length,
                                Append(acc, element.val))

\* pub fn list(env, arg) -> ConvResult<Vec<EmacsVal>>
elisp2native_list(e, h, arg) ==
    LET nil == native2elisp_symbol(e, h, Name_nil)
    IN  IF ~nil.ok THEN nil
        ELSE LET is_list == call(nil.heap, "listp", <<arg>>)
                 same == eq(e, is_list.heap, is_list.val, nil.v)
             IN  IF ~same.ok THEN same
                 ELSE IF same.v
                 THEN Err(WrongEmacsValueType("list", arg), same.heap, <<>>)
                 ELSE LET length == call(same.heap, "length", <<arg>>)
                          n == int_value(e, length.heap, length.val)
                      IN  IF ~n.ok THEN n
                          ELSE list_loop(e, n.heap, arg, 0, n.v, <<>>)

(***************************************************************************)
(* Lists: string_list and list, one call each                              *)
(***************************************************************************)
\* Most items handed to string_list.
MaxItems == 3

\* The texts (&str) the items are drawn from: the empty text, "a", U+00E9,
\* and a text with a nul byte in it.
ItemTexts == {<<>>, <<97>>, <<195, 169>>, <<97, 0, 97>>}

ItemSeqs == UNION {[1..k -> ItemTexts] : k \in 0..MaxItems}

ListEnvs ==
    {e \in [Prims -> BOOLEAN] :
        \A p \in Prims \ {"make_string", "eq", "extract_integer",
                          "make_integer"} : e[p]}

ListInit ==
    /\ env \in ListEnvs
    /\ heap = BaseHeap
    /\ nheap = <<>>
    /\ out = Idle

\* native2elisp::string_list on a slice of texts, first thing in a call.
MakeList ==
    /\ out.op = "init"
    /\ \E items \in ItemSeqs :
        LET r == string_list(env, heap, items)
        IN  /\ heap' = r.heap
            /\ out' = Out("make_list", items, 0, r,
                          IF r.ok THEN [val |-> r.v, s |-> items]
                          ELSE NoMade)
            /\ UNCHANGED <<env, nheap>>

\* elisp2native::list on nil, t, or a value made so far; once per call.
ReadList ==
    /\ out.op = "make_list"
    /\ \E arg \in DOMAIN heap :
        LET r == elisp2native_list(env, heap, arg)
        IN  /\ heap' = r.heap
            /\ out' = Out("list", arg, 0, r, out.made)
            /\ UNCHANGED <<env, nheap>>

ListNext ==
    \/ Return
    \/ MakeList
    \/ ReadList

ListSpec == ListInit /\ [][ListNext]_vars

NulFree(items) == \A i \in DOMAIN items : FirstNul(items[i]) < 0

Utf8(s) ==
    CASE s = "CoreFnMissing" ->
            <<67, 111, 114, 101, 70, 110, 77, 105, 115, 115, 105, 110, 103>>
      [] s = "Nullptr" ->
            <<78, 117, 108, 108, 112, 116, 114>>
      [] s = "FailedToFetchLength" ->
            <<70, 97, 105, 108, 101, 100, 84, 111, 70, 101, 116, 99, 104, 76, 101, 110, 103, 116, 104>>
      [] s = "FailedToCopy" ->
            <<70, 97, 105, 108, 101, 100, 84, 111, 67, 111, 112, 121>>
      [] s = "InvalidArgCount" ->
            <<73, 110, 118, 97, 108, 105, 100, 65, 114, 103, 67, 111, 117, 110, 116>>
      [] s = "Other" ->
            <<79, 116, 104, 101, 114>>
      [] s = "FromUtf8Error" ->
            <<70, 114, 111, 109, 85, 116, 102, 56, 69, 114, 114, 111, 114>>
      [] s = "FoundInteriorNulByte" ->
            <<70, 111, 117, 110, 100, 73, 110, 116, 101, 114, 105, 111, 114, 78, 117, 108, 66, 121, 116, 101>>
      [] s = "NotNulTerminated" ->
            <<78, 111, 116, 78, 117, 108, 84, 101, 114, 109, 105, 110, 97, 116, 101, 100>>
      [] s = "get_user_ptr" ->
            <<103, 101, 116, 95, 117, 115, 101, 114, 95, 112, 116, 114>>
      [] s = "copy_string_contents" ->
            <<99, 111, 112, 121, 95, 115, 116, 114, 105, 110, 103, 95, 99, 111, 110, 116, 101, 110, 116, 115>>
      [] s = "extract_integer" ->
            <<101, 120, 116, 114, 97, 99, 116, 95, 105, 110, 116, 101, 103, 101, 114>>
      [] s = "make_integer" ->
            <<109, 97, 107, 101, 95, 105, 110, 116, 101, 103, 101, 114>>
      [] s = "make_string" ->
            <<109, 97, 107, 101, 95, 115, 116, 114, 105, 110, 103>>
      [] s = "make_function" ->
            <<109, 97, 107, 101, 95, 102, 117, 110, 99, 116, 105, 111, 110>>
      [] s = "make_user_ptr" ->
            <<109, 97, 107, 101, 95, 117, 115, 101, 114, 95, 112, 116, 114>>
      [] s = "eq" ->
            <<101, 113>>
      [] s = "val" ->
            <<118, 97, 108>>
      [] s = "args" ->
            <<97, 114, 103, 115>>

\* " ConvErr::"
Lit_ConvErr == <<32, 67, 111, 110, 118, 69, 114, 114, 58, 58>>
\* "Registered function "
Lit_Registered == <<82, 101, 103, 105, 115, 116, 101, 114, 101, 100, 32, 102, 117, 110, 99, 116, 105, 111, 110, 32>>
\* " { valid_up_to: "
Lit_valid_up_to == <<32, 123, 32, 118, 97, 108, 105, 100, 95, 117, 112, 95, 116, 111, 58, 32>>
\* ", bytes: "
Lit_bytes == <<44, 32, 98, 121, 116, 101, 115, 58, 32>>
\* " { pos: "
Lit_pos == <<32, 123, 32, 112, 111, 115, 58, 32>>
\* "Some("
Lit_Some == <<83, 111, 109, 101, 40>>
\* "None"
Lit_None == <<78, 111, 110, 101>>
\* " }"
Lit_close == <<32, 125>>

\* {} of a usize: its decimal digits.
RECURSIVE Display_usize(_)
Display_usize(n) ==
    IF n < 10 THEN <<48 + n>>
    ELSE Append(Display_usize(n \div 10), 48 + (n % 10))

\* str::escape_debug, for the bytes of Byte and the quote and backslash:
\* nul becomes \0, the quote \", the backslash \\.
RECURSIVE escape_debug(_)
escape_debug(b) ==
    IF b = <<>> THEN <<>>
    ELSE (CASE Head(b) = 0 -> <<92, 48>>
            [] Head(b) = 34 -> <<92, 34>>
            [] Head(b) = 92 -> <<92, 92>>
            [] OTHER -> <<Head(b)>>) \o escape_debug(Tail(b))

\* {:?} of a String
Debug_String(b) == <<34>> \o escape_debug(b) \o <<34>>

\* {:?} of a Vec<u8>: [1, 2, 3]
RECURSIVE Debug_items(_)
Debug_items(b) ==
    IF b = <<>> THEN <<>>
    ELSE IF Len(b) = 1 THEN Display_usize(b[1])
    ELSE Display_usize(b[1]) \o <<44, 32>> \o Debug_items(Tail(b))

Debug_Vec(b) == <<91>> \o Debug_items(b) \o <<93>>

\* ConvErr::Other(String)
Other(msg) == ConvErr("Other", "", 0, <<msg>>)
\* ConvErr::InvalidArgCount(usize)
InvalidArgCount(n) == ConvErr("InvalidArgCount", "", n, <<>>)
\* ConvErr::NotNulTerminated
NotNulTerminated == ConvErr("NotNulTerminated", "", 0, <<>>)

\* #[derive(Debug)] on ConvErr
Debug_ConvErr(e) ==
    CASE e.k \in {"CoreFnMissing", "Nullptr"} ->
            Utf8(e.k) \o <<40>> \o Debug_String(Utf8(e.s)) \o <<41>>
      [] e.k = "Other" ->
            Utf8(e.k) \o <<40>> \o Debug_String(e.b[1]) \o <<41>>
      [] e.k = "InvalidArgCount" ->
            Utf8(e.k) \o <<40>> \o Display_usize(e.n) \o <<41>>
      [] e.k = "FromUtf8Error" ->
            Utf8(e.k) \o Lit_valid_up_to \o Display_usize(e.n) \o Lit_bytes
            \o Debug_Vec(e.b[1]) \o Lit_close
      [] e.k = "FoundInteriorNulByte" ->
            Utf8(e.k) \o Lit_pos \o Display_usize(e.n) \o Lit_bytes
            \o (IF e.b = <<>> THEN Lit_None
                ELSE Lit_Some \o Debug_Vec(e.b[1]) \o <<41>>) \o Lit_close
      [] OTHER -> Utf8(e.k)

(***************************************************************************)
(* emacs_subrs!: the extern "C" function generated around a body           *)
(***************************************************************************)
\* What the ABI call did: returned value v to the host, or faulted (how).
Returned(v, h) ==
    [ok |-> TRUE, v |-> v, e |-> NoErr, heap |-> h, calls |-> <<>>]
Faulted(how, e, h) ==
    [ok |-> FALSE, v |-> <<>>, e |-> e, heap |-> h,
     calls |-> <<[fn |-> "panic", how |-> how]>>]

\* format!("[{}]", stringify!($name))
subr_tag(name) == <<91>> \o name \o <<93>>

\* format!("{} ConvErr::{:?}", $tag, conv_err)
subr_msg(name, conv_err) ==
    subr_tag(name) \o Lit_ConvErr \o Debug_ConvErr(conv_err)

\* unsafe extern "C" fn $name(env, nargs, args, data) -> EmacsVal
\* fun is what the body returned.  When the error text cannot be made,
\* .expect() panics inside an extern "C" function: the unwind crosses the
\* ABI (undefined behaviour) or the process aborts, which ub chooses.
emacs_subr(e, h, name, fun, ub) ==
    IF fun.ok THEN Returned(fun.v, h)
    ELSE LET msg == subr_msg(name, fun.e)
             r == native2elisp_string(e, h, msg)
         IN  IF r.ok THEN Returned(r.v, r.heap)
             ELSE Faulted(ub, r.e, h)

\* The names the subrs are generated under: f, g.
SubrNames == {<<102>>, <<103>>}

\* The errors a body returns.
BodyErrs ==
    {CoreFnMissing(p) : p \in Prims}
    \cup {Nullptr("val"), Nullptr("args"), FailedToFetchLength,
          FailedToCopy, NotNulTerminated}
    \cup {InvalidArgCount(n) : n \in 0..MaxInt}
    \cup {Other(b) : b \in {x \in BSeq(MaxLen) : valid_up_to(x) = Len(x)}}
    \cup {From_FromUtf8Error(valid_up_to(b), b) :
            b \in {x \in BSeq(MaxLen) : valid_up_to(x) < Len(x)}}
    \cup {From_NulError(FirstNul(b), b) :
            b \in {x \in BSeq(MaxLen) : FirstNul(x) >= 0}}
    \cup {FoundInteriorNulByte(n, <<>>) : n \in 0..MaxInt}

\* What a body returns: a host value, or one of the errors.
BodyResults ==
    {[ok |-> TRUE, v |-> v, e |-> NoErr] : v \in {NilVal, TVal}}
    \cup {[ok |-> FALSE, v |-> 0, e |-> x] : x \in BodyErrs}

SubrEnvs ==
    {e \in [Prims -> BOOLEAN] : \A p \in Prims \ {"make_string"} : e[p]}

SubrInit ==
    /\ env \in SubrEnvs
    /\ heap = BaseHeap
    /\ nheap = <<>>
    /\ out = Idle

\* The host calls a generated function; its body returns fun.
CallSubr ==
    /\ out.op = "init"
    /\ \E name \in SubrNames, fun \in BodyResults, ub \in {"unwind", "abort"} :
        LET r == emacs_subr(env, heap, name, fun, ub)
        IN  /\ heap' = r.heap
            /\ out' = Out("subr", [name |-> name, fun |-> fun], 0, r, NoMade)
            /\ UNCHANGED <<env, nheap>>

SubrNext ==
    \/ Return
    \/ CallSubr

SubrSpec == SubrInit /\ [][SubrNext]_vars

\* C1 as stated: whatever ConvErr the body returns, the generated function
\* returns a host text "[<name>] ConvErr::<debug form>" and never faults.
\* (Violated when the table has no make_string: the error text cannot be
\* made and .expect() panics.)
C1_NeverFaults ==
    (out.op = "subr" /\ ~out.arg.fun.ok) =>
        /\ out.res.ok
        /\ out.calls = <<>>
        /\ heap[out.res.v] = HStr(subr_msg(out.arg.name, out.arg.fun.e))

(***************************************************************************)
(* register, message, native2elisp::function                               *)
(***************************************************************************)
\* Largest bound of an arity range.
MaxArity == 3
\* Longest documentation string.
MaxDoc == 2

\* A host function value: minimum arity n, maximum arity m, and the
\* documentation b the host read behind the pointer it was given.
HFun(min_arity, max_arity, doc) == HObj("fun", doc, min_arity, max_arity, 0, 0)

\* The bytes of a nul-terminated buffer up to its first nul.
c_str(buf) == SubSeq(buf, 1, IF FirstNul(buf) < 0 THEN Len(buf)
                             ELSE FirstNul(buf))

\* make_function(env, min, max, f, documentation, data): a new function
\* value; the host reads the documentation as a C string.
host_make_function(h, min_arity, max_arity, documentation) ==
    LET h2 == Append(h, HFun(min_arity, max_arity, c_str(documentation.read)))
    IN  [heap |-> h2, val |-> Len(h2)]

\* pub fn function(env, min_arity, max_arity, function, documentation, data)
\* documentation is a pointer: the buffer it points to (ptr, in the native
\* heap nh) and the bytes a read through it finds.
native2elisp_function(e, h, nh, min_arity, max_arity, documentation) ==
    IF ~e["make_function"]
    THEN Err(CoreFnMissing("make_function"), h, <<>>)
    ELSE LET r == host_make_function(h, min_arity, max_arity, documentation)
         IN  Ok(r.val, r.heap,
                <<[fn |-> "make_function", min |-> min_arity,
                   max |-> max_arity,
                   doc_live |-> nh[documentation.ptr].live]>>)

\* pub fn message<S: Into<String>>(env, text) -> ConvResult<EmacsVal>
message(e, h, text) ==
    LET string == native2elisp_string(e, h, text)
    IN  IF ~string.ok THEN string
        ELSE LET r == call(string.heap, "message", <<string.v>>)
             IN  Ok(r.val, r.heap, <<>>)

\* pub fn register(env, elisp_sym, native_sym, nargs_range, docstring)
\* start and end are nargs_range.start and nargs_range.end.  The CString
\* made from docstring is a temporary of the let statement: it is dropped
\* at the end of that statement, and doc points into the freed buffer.  A
\* read through doc is undefined behaviour; stale is what it finds.
register(e, h, nh, elisp_sym, start, end, docstring, stale) ==
    LET cstring == CString_new(docstring)
    IN  IF ~cstring.ok
        THEN WithNative(Err(From_NulError(cstring.pos, cstring.v), h, <<>>), nh)
        ELSE
        LET nh1 == Append(nh, NObj(as_bytes_with_nul(cstring.v)))
            ptr == Len(nh1)
            nh2 == [nh1 EXCEPT ![ptr].live = FALSE, ![ptr].drops = @ + 1]
            doc == [ptr |-> ptr,
                    read |-> IF nh2[ptr].live THEN nh2[ptr].value ELSE stale]
            func == native2elisp_function(e, h, nh2, start, end + 1, doc)
        IN  IF ~func.ok THEN WithNative(func, nh2)
            ELSE
            LET elisp_symbol == native2elisp_symbol(e, func.heap, elisp_sym)
            IN  IF ~elisp_symbol.ok
                THEN WithNative(Err(elisp_symbol.e, elisp_symbol.heap,
                                    func.calls), nh2)
                ELSE
                LET fset == call(elisp_symbol.heap, "fset",
                                 <<elisp_symbol.v, func.v>>)
                    msg == message(e, fset.heap, Lit_Registered \o elisp_sym)
                IN  IF ~msg.ok
                    THEN WithNative(Err(msg.e, msg.heap, func.calls), nh2)
                    ELSE
                    LET t == native2elisp_symbol(e, msg.heap, Name_t)
                    IN  IF ~t.ok
                        THEN WithNative(Err(t.e, t.heap, func.calls), nh2)
                        ELSE WithNative(Ok(t.v, t.heap, func.calls), nh2)

\* The names registered: f, g, and a name with a nul byte in it.
SymNames == {<<102>>, <<103>>, <<102, 0, 103>>}

\* What a read of freed memory may find in place of the documentation.
Garbage == <<169, 0>>

RegEnvs ==
    {e \in [Prims -> BOOLEAN] :
        \A p \in Prims \ {"make_function", "make_string"} : e[p]}

RegInit ==
    /\ env \in RegEnvs
    /\ heap = BaseHeap
    /\ nheap = <<>>
    /\ out = Idle

\* register, from the module's init function.
Register ==
    /\ out.op = "init"
    /\ \E elisp_sym \in SymNames, start \in 0..MaxArity, end \in 0..MaxArity,
          docstring \in BSeq(MaxDoc) :
        \E stale \in {as_bytes_with_nul(docstring), Garbage} :
            LET r == register(env, heap, nheap, elisp_sym, start, end,
                              docstring, stale)
            IN  /\ heap' = r.r.heap
                /\ nheap' = r.nheap
                /\ out' = Out("register",
                              [elisp_sym |-> elisp_sym, start |-> start,
                               end |-> end, docstring |-> docstring],
                              0, r.r, NoMade)
                /\ UNCHANGED env

\* The init function is over; the registration is looked at no further.
RegReturn ==
    /\ out.op = "register"
    /\ heap' = BaseHeap
    /\ nheap' = <<>>
    /\ out' = Idle
    /\ UNCHANGED env

RegNext ==
    \/ Register
    \/ RegReturn

RegSpec == RegInit /\ [][RegNext]_vars

\* register reached the host's make_function.
MadeFunction == out.op = "register" /\ out.calls # <<>>

\* C4 as stated: register with an arity range of lower bound min and upper
\* bound max, min <= max, passes exactly min and exactly max to
\* make_function.  (Violated: it passes nargs_range.end + 1 as the maximum.)
C4_ArityAsGiven ==
    (MadeFunction /\ out.arg.start <= out.arg.end) =>
        /\ out.calls[1].min = out.arg.start
        /\ out.calls[1].max = out.arg.end

\* C8 as stated: the documentation buffer is still allocated when its
\* pointer is handed to make_function.  (Violated: the CString is a
\* temporary that is dropped before the call.)
C8_DocAlive ==
    MadeFunction => out.calls[1].doc_live

====
